---- MODULE Spec2Model ----
(***************************************************************************)
(* TempMailAutoForward: the provisioning loop (createTempMail), the        *)
(* per-account inbox poller (pollInbox / forwardMessage) and the registry  *)
(* (mailData mirrored to MongoDB in server.js, to mail.json in the file    *)
(* variant).  Every await of the source is a suspension point: the step    *)
(* that issues a call and the step that resumes on its result are          *)
(* separate actions, so other pollers and provisioning attempts            *)
(* interleave exactly where the event loop lets them.                      *)
(***************************************************************************)
EXTENDS Naturals, Sequences, FiniteSets, TLC

\* ---------------------------------------------------------------- bounds
\* longest message listing the provider returns for one GET /messages
MaxLen == 2
\* process restarts (kill + start) in one behaviour
MaxRestarts == 1
\* createTempMail invocations in flight at the same time
MaxCreates == 1
\* failing external calls (provider, relay, storage) in one behaviour
MaxFaults == 1
\* createTempMail invocations in flight at the same time, where the
\* provisioning attempts are let to overlap
MaxOverlap == 2

\* addresses `${rnd}@${domain}` the provisioner can come up with
AddrSeq == <<"a1", "a2">>
Addrs == {AddrSeq[j] : j \in 1..Len(AddrSeq)}
\* message ids the provider hands out
MsgIds == {"m1", "m2"}
Passwords == {"pw1"}
Tokens == {"tk1"}
\* server.js keeps the registry in MongoDB, the other variant in mail.json
Variants == {"mongo", "file"}

VARIABLES
    variant,       \* which of the two source files is running
    main,          \* position of the start-up IIFE
    restarts,      \* restarts so far
    store,         \* persisted registry: the Mail collection / mail.json
    provAccounts,  \* addresses that exist at the provider
    mailData,      \* in-memory registry (array of records)
    timers,        \* timers[k]: pending setTimeout(pollInbox) of record k
    ticks,         \* ticks[k]: pollInbox invocations of record k in flight
    creates,       \* createTempMail invocations in flight
    faults,        \* failed external calls so far
    att,           \* history: outcome of the relay / seen-write per (address, id), this process
    delivered,     \* history: ids the relay has sent, per address
    written,       \* history: the record each address had at its last successful write
    pollErr        \* history: how the last tick of an address ended, until the next starts

vars == <<variant, main, restarts, store, provAccounts, mailData, timers, ticks,
          creates, faults, att, delivered, written, pollErr>>

\* n external calls fail in this step
Fails(n) == faults + n <= MaxFaults /\ faults' = faults + n

\* ------------------------------------------------------------- helpers
Range(s) == {s[j] : j \in 1..Len(s)}

Remove(s, n) == [j \in 1..(Len(s) - 1) |-> IF j < n THEN s[j] ELSE s[j + 1]]

Listings == UNION {[1..n -> MsgIds] : n \in 0..MaxLen}

NoAtt == [fwd |-> "none", wr |-> "none"]

\* history, kept while the poller of an address waits for its next tick, of
\* how the last tick ended: off the end of its loop (err "none"), or in the
\* catch block after the rejected call err ("list", "fetch", "write") for
\* message id, having pushed `done` ids before
NoErr == [err |-> "none", id |-> "none", done |-> 0]

\* the position of a pollInbox invocation: which await it is suspended at,
\* the listing it iterates, the loop index, and the length of info.seen when
\* the loop began
NewTick == [pc |-> "list", msgs |-> <<>>, i |-> 0, n0 |-> 0]

NewCreate == [pc |-> "domains", address |-> "none", idx |-> 0]

\* seeded fault: only the id pushed last is compared
IncludesLastOnly(seen, id) == Len(seen) > 0 /\ seen[Len(seen)] = id

\* info.seen.includes(m.id)
Includes(seen, id) == \E j \in 1..Len(seen) : seen[j] = id

\* seeded fault: the push replaces the list instead of extending it
MarkSeenReset(seen, id) == <<id>>

\* info.seen.push(m.id)
MarkSeen(seen, id) == Append(seen, id)

\* seeded fault: the loop walks the listing from its end
CurMsgReversed(msgs, i) == msgs[Len(msgs) + 1 - i]

\* for (const m of messages): the element the loop is at
CurMsg(msgs, i) == msgs[i]

\* seeded fault: the loop handles every listed id, without the includes test
NextUnseenNoCheck(msgs, from, seen) == from

\* the loop `for (const m of messages) if (!info.seen.includes(m.id))`, resumed
\* at index `from`: the first index whose id is not in seen, Len+1 when the
\* loop runs off the end
NextUnseen(msgs, from, seen) ==
    LET c == {j \in from..Len(msgs) : ~Includes(seen, msgs[j])}
    IN  IF c = {} THEN Len(msgs) + 1
        ELSE CHOOSE j \in c : \A j2 \in c : j <= j2

\* seeded fault: the catch block takes the last pushed id back
PollCatchRollback(seen) == SubSeq(seen, 1, Len(seen) - 1)

\* seeded fault: the catch block empties the seen list
PollCatchClear(seen) == <<>>

\* catch (err) { console.error(...) }: the poller's catch block leaves
\* info.seen as it is
PollCatch(seen) == seen

\* seeded fault: the next tick is scheduled at the end of the try block
\* instead of in finally
TimersAfterTickOkOnly(n, outcome) == IF outcome = "ok" THEN n + 1 ELSE n

\* finally { setTimeout(() => pollInbox(info), POLL_INTERVAL_MS) }
TimersAfterTick(n, outcome) == n + 1

\* seeded fault: a repeating timer (setInterval) in place of setTimeout
TimersAfterFireRepeating(n) == n

\* a setTimeout timer fires once
TimersAfterFire(n) == n - 1

\* seeded fault: the external calls block the event loop, so a timer callback
\* runs only when no call of any poller is pending
TimerDueBlocking(tm, tk, k) == tm[k] > 0 /\ \A j \in 1..Len(tk) : tk[j] = <<>>

\* the timer callback of record k is due; every pollInbox invocation in
\* flight is suspended at an await, which leaves the event loop free
TimerDue(tm, tk, k) == tm[k] > 0

\* seeded fault: pollInbox(record) called whether or not the save succeeded
StartsPollerAlways(saved) == TRUE

\* pollInbox(record) sits inside the try, after the awaited save
StartsPoller(saved) == saved

\* ------------------------------------------------------------ storage
\* seeded fault: the token is not among the fields that are stored
SaveDocNoToken(rec) ==
    [address |-> rec.address, password |-> rec.password,
     token |-> "", seen |-> rec.seen]

\* new Mail(record): the schema's fields of the record
SaveDoc(rec) ==
    [address |-> rec.address, password |-> rec.password,
     token |-> rec.token, seen |-> rec.seen]

\* seeded fault: the loaded record starts with an empty seen list
LoadObjNoSeen(doc) ==
    [address |-> doc.address, password |-> doc.password,
     token |-> doc.token, seen |-> <<>>]

\* m.toObject() / an element of JSON.parse
LoadObj(doc) ==
    [address |-> doc.address, password |-> doc.password,
     token |-> doc.token, seen |-> doc.seen]

\* Mail.find({}) mapped with toObject; JSON.parse(readFileSync('mail.json'))
LoadAll(st) == [j \in 1..Len(st) |-> LoadObj(st[j])]

\* seeded fault: the save replaces the collection by the one document
SaveMailOverwrite(st, rec) == <<SaveDoc(rec)>>

\* await mail.save(): one more document
SaveMail(st, rec) == Append(st, SaveDoc(rec))

\* seeded fault: the update appends the id pushed last ($push) instead of
\* setting the whole list
UpdateSeenPushLast(st, address, seen) ==
    LET c == {j \in 1..Len(st) : st[j].address = address}
    IN  IF c = {} THEN st
        ELSE LET f == CHOOSE j \in c : \A j2 \in c : j <= j2
             IN  [st EXCEPT ![f].seen = Append(@, seen[Len(seen)])]

\* Mail.updateOne({ address }, { $set: { seen } }): the first document with
\* that address, none when there is no such document
UpdateSeen(st, address, seen) ==
    LET c == {j \in 1..Len(st) : st[j].address = address}
    IN  IF c = {} THEN st
        ELSE LET f == CHOOSE j \in c : \A j2 \in c : j <= j2
             IN  [st EXCEPT ![f].seen = seen]

\* fs.writeFileSync('mail.json', JSON.stringify(mailData, null, 2))
WriteFile(md) == [j \in 1..Len(md) |-> SaveDoc(md[j])]

\* ids persisted / held in memory for an address
StoreSeen(a) == UNION {Range(store[j].seen) : j \in {x \in 1..Len(store) : store[x].address = a}}
MemSeen(a) == UNION {Range(mailData[j].seen) : j \in {x \in 1..Len(mailData) : mailData[x].address = a}}
InStore(a) == \E j \in 1..Len(store) : store[j].address = a

\* the fields of a record the registry is to keep
Fields(rec) ==
    [address |-> rec.address, password |-> rec.password,
     token |-> rec.token, seen |-> rec.seen]

\* history of a successful saveMail(record): the record handed to it
WrittenRecord(rec) == [written EXCEPT ![rec.address] = <<Fields(rec)>>]

\* history of a successful updateSeen(address, seen): the seen list handed to
\* it (the update touches a stored document only)
WrittenSeen(a, seen) ==
    IF written[a] = <<>> THEN written
    ELSE [written EXCEPT ![a] = <<[@[1] EXCEPT !.seen = seen]>>]

\* history of a successful writeFileSync: every record of the array handed
\* to JSON.stringify
WrittenAll(md) ==
    [a \in Addrs |->
        LET c == {j \in 1..Len(md) : md[j].address = a}
        IN  IF c = {} THEN written[a]
            ELSE <<Fields(md[CHOOSE j \in c : \A j2 \in c : j <= j2])>>]

\* --------------------------------------------------------------- Init
Init ==
    /\ variant \in Variants
    /\ main = "load"
    /\ restarts = 0
    /\ store = <<>>
    /\ provAccounts = {}
    /\ mailData = <<>>
    /\ timers = <<>>
    /\ ticks = <<>>
    /\ creates = <<>>
    /\ faults = 0
    /\ att = [a \in Addrs |-> [m \in MsgIds |-> NoAtt]]
    /\ delivered = [a \in Addrs |-> {}]
    /\ written = [a \in Addrs |-> <<>>]
    /\ pollErr = [a \in Addrs |-> NoErr]

\* ------------------------------------------------------------- poller
\* history kept of a relay attempt that settled with r
Delivered(a, id, r) ==
    IF r = "ok" THEN [delivered EXCEPT ![a] = @ \cup {id}] ELSE delivered

\* history kept of a tick that ends with outcome
TickOutcome(k, n, outcome) ==
    IF outcome = "ok" THEN NoErr
    ELSE [err  |-> outcome,
          id   |-> IF outcome = "list" THEN "none"
                   ELSE CurMsg(ticks[k][n].msgs, ticks[k][n].i),
          done |-> IF outcome = "fetch"
                   THEN Len(mailData[k].seen) - ticks[k][n].n0 ELSE 0]

\* the tick leaves the try block, by running off the loop ("ok") or through
\* the catch (after a rejected "list", "fetch" or "write"); finally schedules
\* the next tick
TickEnds(k, n, outcome) ==
    /\ ticks' = [ticks EXCEPT ![k] = Remove(@, n)]
    /\ timers' = [timers EXCEPT ![k] = TimersAfterTick(@, outcome)]
    /\ pollErr' = [pollErr EXCEPT ![mailData[k].address] = TickOutcome(k, n, outcome)]

\* the for loop resumes at index `from` with info.seen = seen: it awaits the
\* fetch of the next unseen id, or runs off the end of the listing
LoopFrom(k, n, L, from, n0, seen) ==
    LET j == NextUnseen(L, from, seen)
    IN  IF j > Len(L) THEN TickEnds(k, n, "ok")
        ELSE /\ ticks' = [ticks EXCEPT ![k][n] =
                    [pc |-> "fetch", msgs |-> L, i |-> j, n0 |-> n0]]
             /\ timers' = timers
             /\ pollErr' = pollErr

\* setTimeout(() => pollInbox(info), POLL_INTERVAL_MS) fires: pollInbox runs
\* up to its first await, the GET /messages
TimerFire(k) ==
    /\ TimerDue(timers, ticks, k)
    /\ timers' = [timers EXCEPT ![k] = TimersAfterFire(@)]
    /\ ticks' = [ticks EXCEPT ![k] = Append(@, NewTick)]
    /\ pollErr' = [pollErr EXCEPT ![mailData[k].address] = NoErr]
    /\ faults' = faults
    /\ UNCHANGED <<variant, main, restarts, store, provAccounts, mailData, creates,
                   att, delivered, written>>

\* GET /messages rejects (network, token, rate limit), or its body has no
\* iterable hydra:member
ListFail(k, n) ==
    /\ ticks[k][n].pc = "list"
    /\ mailData' = [mailData EXCEPT ![k].seen = PollCatch(@)]
    /\ TickEnds(k, n, "list")
    /\ Fails(1)
    /\ UNCHANGED <<variant, main, restarts, store, provAccounts, creates,
                   att, delivered, written>>

\* GET /messages resolves with a listing
ListOk(k, n) ==
    /\ ticks[k][n].pc = "list"
    /\ \E L \in Listings :
          LoopFrom(k, n, L, 1, Len(mailData[k].seen), mailData[k].seen)
    /\ faults' = faults
    /\ UNCHANGED <<variant, main, restarts, store, provAccounts, mailData, creates,
                   att, delivered, written>>

\* GET /messages/{id} rejects
FetchFail(k, n) ==
    /\ ticks[k][n].pc = "fetch"
    /\ mailData' = [mailData EXCEPT ![k].seen = PollCatch(@)]
    /\ TickEnds(k, n, "fetch")
    /\ Fails(1)
    /\ UNCHANGED <<variant, main, restarts, store, provAccounts, creates,
                   att, delivered, written>>

\* GET /messages/{id} resolves: forwardMessage(full) runs up to sendMail
FetchOk(k, n) ==
    /\ ticks[k][n].pc = "fetch"
    /\ ticks' = [ticks EXCEPT ![k][n].pc = "forward"]
    /\ faults' = faults
    /\ UNCHANGED <<variant, main, restarts, store, provAccounts, mailData, timers,
                   creates, att, delivered,
                   written, pollErr>>

\* server.js: sendMail settles with r; forwardMessage catches a rejection
\* itself and returns; pollInbox pushes the id and awaits updateSeen
ForwardDoneMongo(k, n) ==
    /\ variant = "mongo"
    /\ ticks[k][n].pc = "forward"
    /\ \E r \in {"ok", "fail"} :
          LET t  == ticks[k][n]
              id == CurMsg(t.msgs, t.i)
              a  == mailData[k].address
          IN  /\ Fails(IF r = "ok" THEN 0 ELSE 1)
              /\ mailData' = [mailData EXCEPT ![k].seen = MarkSeen(@, id)]
              /\ ticks' = [ticks EXCEPT ![k][n].pc = "persist"]
              /\ att' = [att EXCEPT ![a][id] = [fwd |-> r, wr |-> "none"]]
              /\ delivered' = Delivered(a, id, r)
    /\ UNCHANGED <<variant, main, restarts, store, provAccounts, timers, creates,
                   written, pollErr>>

\* server.js: updateSeen resolves; the loop goes on
PersistOk(k, n) ==
    /\ ticks[k][n].pc = "persist"
    /\ LET t  == ticks[k][n]
           id == CurMsg(t.msgs, t.i)
           a  == mailData[k].address
       IN  /\ store' = UpdateSeen(store, a, mailData[k].seen)
           /\ written' = WrittenSeen(a, mailData[k].seen)
           /\ att' = [att EXCEPT ![a][id].wr = "ok"]
           /\ LoopFrom(k, n, t.msgs, t.i + 1, t.n0, mailData[k].seen)
    /\ faults' = faults
    /\ UNCHANGED <<variant, main, restarts, provAccounts, mailData, creates, delivered>>

\* server.js: updateSeen rejects; the catch ends the tick
PersistFail(k, n) ==
    /\ ticks[k][n].pc = "persist"
    /\ LET t  == ticks[k][n]
           id == CurMsg(t.msgs, t.i)
           a  == mailData[k].address
       IN  /\ att' = [att EXCEPT ![a][id].wr = "fail"]
           /\ mailData' = [mailData EXCEPT ![k].seen = PollCatch(@)]
           /\ TickEnds(k, n, "write")
    /\ Fails(1)
    /\ UNCHANGED <<variant, main, restarts, store, provAccounts, creates, delivered,
                   written>>

\* file variant: sendMail settles with r, the id is pushed and mail.json is
\* rewritten synchronously; a throwing writeFileSync ends the tick
ForwardDoneFile(k, n) ==
    /\ variant = "file"
    /\ ticks[k][n].pc = "forward"
    /\ \E r \in {"ok", "fail"}, w \in {"ok", "fail"} :
          LET t    == ticks[k][n]
              id   == CurMsg(t.msgs, t.i)
              a    == mailData[k].address
              seen == MarkSeen(mailData[k].seen, id)
          IN  /\ Fails((IF r = "ok" THEN 0 ELSE 1) + (IF w = "ok" THEN 0 ELSE 1))
              /\ att' = [att EXCEPT ![a][id] = [fwd |-> r, wr |-> w]]
              /\ delivered' = Delivered(a, id, r)
              /\ IF w = "ok"
                   THEN /\ mailData' = [mailData EXCEPT ![k].seen = seen]
                        /\ store' = WriteFile(mailData')
                        /\ written' = WrittenAll(mailData')
                        /\ LoopFrom(k, n, t.msgs, t.i + 1, t.n0, seen)
                   ELSE /\ mailData' = [mailData EXCEPT ![k].seen = PollCatch(seen)]
                        /\ store' = store
                        /\ written' = written
                        /\ TickEnds(k, n, "write")
    /\ UNCHANGED <<variant, main, restarts, provAccounts, creates>>

\* -------------------------------------------------------- provisioner
\* createTempMail returns (through the catch or off the end of the try); the
\* start-up IIFE, when it awaits this call, goes on to setInterval
CreateEnds(c) ==
    /\ creates' = Remove(creates, c)
    /\ main' = IF main = "create" THEN "running" ELSE main

\* pollInbox(record) is called for record idx when `started`
PollersAfterCreate(tk, idx, started) ==
    IF started THEN [tk EXCEPT ![idx] = Append(@, NewTick)] ELSE tk

\* setInterval(createTempMail, CREATE_INTERVAL_MS) fires; it does not wait
\* for an earlier invocation; at most `limit` invocations are in flight
IntervalFires(limit) ==
    /\ main = "running"
    /\ Len(creates) < limit
    /\ creates' = Append(creates, NewCreate)
    /\ faults' = faults
    /\ UNCHANGED <<variant, main, restarts, store, provAccounts, mailData, timers,
                   ticks, att, delivered,
                   written, pollErr>>

IntervalFire == IntervalFires(MaxCreates)

\* the interval fires while an earlier invocation is still in flight
IntervalFireOverlapping == Len(creates) > 0 /\ IntervalFires(MaxOverlap)

\* GET /domains rejects, or hydra:member is empty ([0].domain throws)
DomainsFail(c) ==
    /\ creates[c].pc = "domains"
    /\ CreateEnds(c)
    /\ Fails(1)
    /\ UNCHANGED <<variant, restarts, store, provAccounts, mailData, timers, ticks,
                   att, delivered,
                   written, pollErr>>

\* the addresses uuidv4().slice(0, 8) + the first domain can give: one known
\* to the provider or to another invocation in flight (a collision), or a
\* fresh one; fresh addresses are interchangeable, the first of AddrSeq
\* stands for them
AddressChoices ==
    LET used  == provAccounts \cup
                 {creates[x].address : x \in {y \in 1..Len(creates) : creates[y].pc # "domains"}}
        fresh == {j \in 1..Len(AddrSeq) : AddrSeq[j] \notin used}
    IN  used \cup {AddrSeq[j] : j \in {x \in fresh : \A y \in fresh : x <= y}}

\* GET /domains resolves: address = `${rnd}@${domain}`, POST /accounts issued
DomainsOk(c) ==
    /\ creates[c].pc = "domains"
    /\ \E a \in AddressChoices :
          creates' = [creates EXCEPT ![c].pc = "accounts", ![c].address = a]
    /\ faults' = faults
    /\ UNCHANGED <<variant, main, restarts, store, provAccounts, mailData, timers,
                   ticks, att, delivered,
                   written, pollErr>>

\* POST /accounts rejects: always for a taken address (422), otherwise as
\* one of the failing calls
AccountsFail(c) ==
    /\ creates[c].pc = "accounts"
    /\ Fails(IF creates[c].address \in provAccounts THEN 0 ELSE 1)
    /\ CreateEnds(c)
    /\ UNCHANGED <<variant, restarts, store, provAccounts, mailData, timers, ticks,
                   att, delivered,
                   written, pollErr>>

\* POST /accounts resolves: the provider has created the address
AccountsOk(c) ==
    /\ creates[c].pc = "accounts"
    /\ creates[c].address \notin provAccounts
    /\ provAccounts' = provAccounts \cup {creates[c].address}
    /\ creates' = [creates EXCEPT ![c].pc = "token"]
    /\ faults' = faults
    /\ UNCHANGED <<variant, main, restarts, store, mailData, timers, ticks, att, delivered,
                   written, pollErr>>

\* POST /token rejects
TokenFail(c) ==
    /\ creates[c].pc = "token"
    /\ CreateEnds(c)
    /\ Fails(1)
    /\ UNCHANGED <<variant, restarts, store, provAccounts, mailData, timers, ticks,
                   att, delivered,
                   written, pollErr>>

\* the record createTempMail builds
NewRecord(a, pw, tok) ==
    [address |-> a, password |-> pw, token |-> tok, seen |-> <<>>]

\* server.js: POST /token resolves; the record is pushed, saveMail awaited
TokenOkMongo(c) ==
    /\ variant = "mongo"
    /\ creates[c].pc = "token"
    /\ \E pw \in Passwords, tok \in Tokens :
          mailData' = Append(mailData, NewRecord(creates[c].address, pw, tok))
    /\ timers' = Append(timers, 0)
    /\ ticks' = Append(ticks, <<>>)
    /\ creates' = [creates EXCEPT ![c].pc = "save", ![c].idx = Len(mailData) + 1]
    /\ faults' = faults
    /\ UNCHANGED <<variant, main, restarts, store, provAccounts, att, delivered,
                   written, pollErr>>

\* server.js: saveMail resolves; the poller of the record starts
SaveOk(c) ==
    /\ creates[c].pc = "save"
    /\ store' = SaveMail(store, mailData[creates[c].idx])
    /\ written' = WrittenRecord(mailData[creates[c].idx])
    /\ ticks' = PollersAfterCreate(ticks, creates[c].idx, StartsPoller(TRUE))
    /\ CreateEnds(c)
    /\ faults' = faults
    /\ UNCHANGED <<variant, restarts, provAccounts, mailData, timers, att, delivered,
                   pollErr>>

\* server.js: saveMail rejects; the catch logs
SaveFail(c) ==
    /\ creates[c].pc = "save"
    /\ ticks' = PollersAfterCreate(ticks, creates[c].idx, StartsPoller(FALSE))
    /\ CreateEnds(c)
    /\ Fails(1)
    /\ UNCHANGED <<variant, restarts, store, provAccounts, mailData, timers, att, delivered,
                   written, pollErr>>

\* file variant: POST /token resolves; the record is pushed and mail.json
\* rewritten synchronously; the poller starts when the write did not throw
TokenOkFile(c) ==
    /\ variant = "file"
    /\ creates[c].pc = "token"
    /\ \E pw \in Passwords, tok \in Tokens :
          mailData' = Append(mailData, NewRecord(creates[c].address, pw, tok))
    /\ timers' = Append(timers, 0)
    /\ \E w \in BOOLEAN :
          /\ Fails(IF w THEN 0 ELSE 1)
          /\ store' = IF w THEN WriteFile(mailData') ELSE store
          /\ written' = IF w THEN WrittenAll(mailData') ELSE written
          /\ ticks' = PollersAfterCreate(Append(ticks, <<>>), Len(mailData) + 1,
                                         StartsPoller(w))
    /\ CreateEnds(c)
    /\ UNCHANGED <<variant, restarts, provAccounts, att, delivered, pollErr>>

\* ------------------------------------------------------------ start-up
\* loadMails / JSON.parse(readFileSync) succeeds: every loaded record gets a
\* pollInbox call, then createTempMail is called and awaited
LoadOk ==
    /\ main = "load"
    /\ mailData' = LoadAll(store)
    /\ timers' = [j \in 1..Len(store) |-> 0]
    /\ ticks' = [j \in 1..Len(store) |-> <<NewTick>>]
    /\ creates' = <<NewCreate>>
    /\ main' = "create"
    /\ faults' = faults
    /\ UNCHANGED <<variant, restarts, store, provAccounts, att, delivered,
                   written, pollErr>>

\* Mail.find rejects inside the un-caught `await loadMails()` of the IIFE;
\* readFileSync / JSON.parse / writeFileSync throws at module level.  The
\* IIFE never reaches createTempMail and setInterval (the process exits, or
\* lives on with nothing scheduled: the same state here)
LoadFail ==
    /\ main = "load"
    /\ main' = "aborted"
    /\ Fails(1)
    /\ UNCHANGED <<variant, restarts, store, provAccounts, mailData, timers, ticks,
                   creates, att, delivered,
                   written, pollErr>>

\* the process is killed and started again: memory is lost, the store and
\* the provider keep what they have (of the delivery history, the ids the
\* store holds are kept: the others play no part in a later process)
Restart ==
    /\ restarts < MaxRestarts
    /\ restarts' = restarts + 1
    /\ main' = "load"
    /\ mailData' = <<>>
    /\ timers' = <<>>
    /\ ticks' = <<>>
    /\ creates' = <<>>
    /\ att' = [a \in Addrs |-> [m \in MsgIds |-> NoAtt]]
    /\ delivered' = [a \in Addrs |-> delivered[a] \cap StoreSeen(a)]
    /\ pollErr' = [a \in Addrs |-> NoErr]
    /\ faults' = faults
    /\ UNCHANGED <<variant, store, provAccounts, written>>

\* --------------------------------------------------------------- Next
\* what the running process and its environment do
Run ==
    \/ LoadOk
    \/ LoadFail
    \/ IntervalFire
    \/ \E c \in 1..Len(creates) : DomainsFail(c)
    \/ \E c \in 1..Len(creates) : DomainsOk(c)
    \/ \E c \in 1..Len(creates) : AccountsFail(c)
    \/ \E c \in 1..Len(creates) : AccountsOk(c)
    \/ \E c \in 1..Len(creates) : TokenFail(c)
    \/ \E c \in 1..Len(creates) : TokenOkMongo(c)
    \/ \E c \in 1..Len(creates) : SaveOk(c)
    \/ \E c \in 1..Len(creates) : SaveFail(c)
    \/ \E c \in 1..Len(creates) : TokenOkFile(c)
    \/ \E k \in 1..Len(mailData) : TimerFire(k)
    \/ \E k \in 1..Len(mailData) : \E n \in 1..Len(ticks[k]) : ListFail(k, n)
    \/ \E k \in 1..Len(mailData) : \E n \in 1..Len(ticks[k]) : ListOk(k, n)
    \/ \E k \in 1..Len(mailData) : \E n \in 1..Len(ticks[k]) : FetchFail(k, n)
    \/ \E k \in 1..Len(mailData) : \E n \in 1..Len(ticks[k]) : FetchOk(k, n)
    \/ \E k \in 1..Len(mailData) : \E n \in 1..Len(ticks[k]) : ForwardDoneMongo(k, n)
    \/ \E k \in 1..Len(mailData) : \E n \in 1..Len(ticks[k]) : PersistOk(k, n)
    \/ \E k \in 1..Len(mailData) : \E n \in 1..Len(ticks[k]) : PersistFail(k, n)
    \/ \E k \in 1..Len(mailData) : \E n \in 1..Len(ticks[k]) : ForwardDoneFile(k, n)

Next == Run \/ Restart

Spec == Init /\ [][Next]_vars

\* the steps of the poller of record k
PollerStep(k) ==
    /\ k \in 1..Len(mailData)
    /\ \/ TimerFire(k)
       \/ \E n \in 1..Len(ticks[k]) :
             \/ ListFail(k, n)
             \/ ListOk(k, n)
             \/ FetchFail(k, n)
             \/ FetchOk(k, n)
             \/ ForwardDoneMongo(k, n)
             \/ PersistOk(k, n)
             \/ PersistFail(k, n)
             \/ ForwardDoneFile(k, n)

\* fairness: a pending timer fires and every external call a tick awaits
\* settles (the event loop runs whatever is ready)
FairSpec ==
    Init /\ [][Run]_vars /\ \A k \in 1..Len(AddrSeq) : WF_vars(PollerStep(k))

\* the steps of the provisioning attempts in flight
CreateStep ==
    \E c \in 1..Len(creates) :
        \/ DomainsFail(c)
        \/ DomainsOk(c)
        \/ AccountsFail(c)
        \/ AccountsOk(c)
        \/ TokenFail(c)
        \/ TokenOkMongo(c)
        \/ SaveOk(c)
        \/ SaveFail(c)
        \/ TokenOkFile(c)

\* one process life in which no call is bound to settle: any call may stay
\* pending for ever
RunSpec == Init /\ [][Run]_vars

\* one process life in which the interval timer fires while earlier
\* provisioning attempts are in flight
OverlapNext == Run \/ IntervalFireOverlapping

OverlapSpec == Init /\ [][OverlapNext]_vars

\* ------------------------------------------------------------- claims
Recs == 1..Len(mailData)

AddrOf(k) == mailData[k].address

\* a tick of record k that has fetched, or is relaying, an id
Handling(k, n) == ticks[k][n].pc \in {"fetch", "forward"}

\* C1: if the relay fails for message M during a tick of account A, M is
\* absent from A's seen-set once that tick is over (so that a later tick
\* fetches and forwards M again).
C1_RelayFailureLeavesUnseen ==
    \A k \in Recs : \A m \in MsgIds :
        (att[AddrOf(k)][m].fwd = "fail" /\ ticks[k] = <<>>)
            => ~Includes(mailData[k].seen, m)

\* C2: an id of account A whose forward succeeded and that the persisted
\* seen-set holds is never fetched or handed to the relay by a tick of A,
\* in this process or in one started later from the store.
C2_NoRelayOncePersisted ==
    \A k \in Recs : \A n \in 1..Len(ticks[k]) :
        Handling(k, n) =>
            ~(/\ CurMsg(ticks[k][n].msgs, ticks[k][n].i) \in delivered[AddrOf(k)]
              /\ CurMsg(ticks[k][n].msgs, ticks[k][n].i) \in StoreSeen(AddrOf(k)))

\* after a restart, a tick has passed over a listed id that was forwarded and
\* persisted before the restart, and is fetching the next one
C2_Witness ==
    /\ restarts = 1
    /\ \E k \in Recs : \E n \in 1..Len(ticks[k]) :
          /\ ticks[k][n].pc = "fetch"
          /\ ticks[k][n].i = 2
          /\ ticks[k][n].msgs[1] \in delivered[AddrOf(k)] \cap StoreSeen(AddrOf(k))
          /\ att[AddrOf(k)][ticks[k][n].msgs[1]].fwd = "none"

\* C3: the seen-set of an account never loses an id: a step of the running
\* process keeps every id of the in-memory seen-set, and every step (a
\* restart too) keeps every id of the persisted seen-set.
C3_SeenNeverShrinks ==
    [][/\ \A a \in Addrs : StoreSeen(a) \subseteq StoreSeen(a)'
       /\ restarts' = restarts => \A a \in Addrs : MemSeen(a) \subseteq MemSeen(a)']_vars

\* two ids are in an account's seen-set, in memory and persisted, after a
\* failed external call
C3_Witness ==
    /\ faults = 1
    /\ \E a \in Addrs : MemSeen(a) = MsgIds /\ StoreSeen(a) = MsgIds

\* C4 as stated: a message whose forward succeeded and whose seen-write
\* failed is unseen between ticks, so that the next tick forwards it again.
C4_UnseenAfterWriteFailure ==
    \A k \in Recs : \A m \in MsgIds :
        (att[AddrOf(k)][m] = [fwd |-> "ok", wr |-> "fail"] /\ ticks[k] = <<>>)
            => ~Includes(mailData[k].seen, m)

\* C4 amended: a message whose forward succeeded and whose seen-write failed
\* stays in the in-memory seen-set, and no later tick of the same process
\* fetches or forwards it.
C4_NoDuplicateInProcess ==
    \A k \in Recs : \A m \in MsgIds :
        att[AddrOf(k)][m] = [fwd |-> "ok", wr |-> "fail"] =>
            /\ Includes(mailData[k].seen, m)
            /\ \A n \in 1..Len(ticks[k]) :
                  Handling(k, n) => CurMsg(ticks[k][n].msgs, ticks[k][n].i) # m

\* a later tick lists such a message first, has passed over it and is
\* fetching the next listed id
C4_Witness ==
    \E k \in Recs : \E n \in 1..Len(ticks[k]) :
        /\ ticks[k][n].pc = "fetch"
        /\ ticks[k][n].i = 2
        /\ att[AddrOf(k)][ticks[k][n].msgs[1]] = [fwd |-> "ok", wr |-> "fail"]

\* C5: a failed provisioning attempt leaves no unpersisted record in the
\* registry: every record of mailData is in the store, or the attempt that
\* pushed it is still awaiting its save.
C5_NoUnpersistedRecord ==
    \A k \in Recs :
        \/ InStore(AddrOf(k))
        \/ \E c \in 1..Len(creates) : creates[c].pc = "save" /\ creates[c].idx = k

\* C6: at most one tick of an account is in flight or pending on a timer
\* (so a tick starts only when the previous one, its seen-write included,
\* is over).
C6_TicksSequential ==
    \A k \in Recs : timers[k] + Len(ticks[k]) <= 1

\* a tick is awaiting its seen-write and no timer of the account is pending
C6_Witness ==
    \E k \in Recs :
        /\ timers[k] = 0
        /\ Len(ticks[k]) = 1
        /\ ticks[k][1].pc = "persist"

\* C7: a tick that ends, by whatever outcome, schedules exactly one next
\* tick; with every call settling, a pending timer leads to a running tick
\* and a running tick to a pending timer, for every record, forever.
C7_AlwaysRescheduled ==
    /\ [][\A k \in Recs :
             Len(ticks'[k]) < Len(ticks[k]) => timers'[k] = timers[k] + 1]_vars
    /\ \A k \in 1..Len(AddrSeq) :
          /\ (k \in Recs /\ timers[k] > 0) ~> (k \in Recs /\ ticks[k] # <<>>)
          /\ (k \in Recs /\ ticks[k] # <<>>) ~> (k \in Recs /\ timers[k] > 0)

\* a tick has ended on a failed seen-write and the next one is pending
C7_Witness ==
    \E k \in Recs : \E m \in MsgIds :
        /\ att[AddrOf(k)][m].wr = "fail"
        /\ timers[k] = 1
        /\ ticks[k] = <<>>

\* the ids of msgs[1..upto] that are not in seen0, each once, in listing order
RECURSIVE Handled(_, _, _)
Handled(msgs, upto, seen0) ==
    IF upto = 0 THEN <<>>
    ELSE LET h == Handled(msgs, upto - 1, seen0)
         IN  IF msgs[upto] \in Range(seen0) \cup Range(h) THEN h
             ELSE Append(h, msgs[upto])

\* the part of info.seen a tick found when its loop began / has pushed since
SeenBefore(k, n) == SubSeq(mailData[k].seen, 1, ticks[k][n].n0)
SeenSince(k, n) == SubSeq(mailData[k].seen, ticks[k][n].n0 + 1, Len(mailData[k].seen))

\* C8: a tick handles the listed unseen ids one at a time in listing order:
\* while it fetches or relays msgs[i] it has pushed, and persisted, exactly
\* the unseen ids listed before i, in that order, and while it awaits the
\* seen-write of msgs[i] exactly those up to i; an id it fetches was not in
\* the seen-set when the tick began (a tick listing only seen ids fetches and
\* forwards nothing); and a tick that ends without a failure leaves every
\* listed id in the seen-set.
C8_ListingOrder ==
    /\ [](\A k \in Recs : \A n \in 1..Len(ticks[k]) :
            LET t == ticks[k][n]
            IN  /\ Handling(k, n) =>
                    /\ SeenSince(k, n) = Handled(t.msgs, t.i - 1, SeenBefore(k, n))
                    /\ ~Includes(mailData[k].seen, t.msgs[t.i])
                    /\ Range(SeenSince(k, n)) \subseteq StoreSeen(AddrOf(k))
                /\ t.pc = "persist" =>
                    /\ SeenSince(k, n) = Handled(t.msgs, t.i, SeenBefore(k, n))
                    /\ ~Includes(SeenBefore(k, n), t.msgs[t.i]))
    /\ [][\A k \in Recs :
             (/\ restarts' = restarts
              /\ faults' = faults
              /\ Len(ticks[k]) = 1
              /\ ticks'[k] = <<>>)
                 => Range(ticks[k][1].msgs) \subseteq Range(mailData'[k].seen)]_vars

\* a tick that listed two unseen ids has pushed both, in listing order, and
\* awaits the seen-write of the second
C8_Witness ==
    \E k \in Recs :
        /\ Len(ticks[k]) = 1
        /\ ticks[k][1].pc = "persist"
        /\ ticks[k][1].msgs = <<"m1", "m2">>
        /\ ticks[k][1].i = 2
        /\ ticks[k][1].n0 = 0
        /\ mailData[k].seen = <<"m1", "m2">>

\* C9: no storage error at start-up stops the start-up sequence: the IIFE
\* always gets to createTempMail and setInterval.
C9_StartupErrorContained == main # "aborted"

\* C10: an account with a tick in flight or pending is in the store, and a
\* record whose poller has not started (its save still awaited) has an empty
\* seen-set.
C10_PersistedBeforeFirstTick ==
    \A k \in Recs :
        /\ timers[k] + Len(ticks[k]) > 0 => InStore(AddrOf(k))
        /\ timers[k] + Len(ticks[k]) = 0 => mailData[k].seen = <<>>

\* the first tick of an account provisioned by this process awaits its
\* listing; the record is stored with an empty seen-set
C10_Witness ==
    /\ restarts = 0
    /\ \E k \in Recs :
          /\ Len(ticks[k]) = 1
          /\ ticks[k][1].pc = "list"
          /\ mailData[k].seen = <<>>
          /\ \E j \in 1..Len(store) :
                store[j].address = AddrOf(k) /\ store[j].seen = <<>>

\* the stored documents of address a
StoreDocs(a) == {j \in 1..Len(store) : store[j].address = a}

\* C11: every record of the in-memory registry is in the store and has
\* exactly one poller (a tick in flight or a pending timer), from the end of
\* the provisioning attempt that created it (while the attempt awaits its
\* save the record is let off).
C11_EveryRecordPersistedAndPolled ==
    \A k \in Recs :
        \/ \E c \in 1..Len(creates) : creates[c].pc = "save" /\ creates[c].idx = k
        \/ /\ InStore(AddrOf(k))
           /\ timers[k] + Len(ticks[k]) = 1

\* C12: when the start-up load succeeds, every address that was ever written
\* successfully has exactly one record in the registry, with the address,
\* password, token and seen list of the last successful write, and one
\* pollInbox invocation has been started for it.
C12_RestartRoundTrip ==
    [][(main = "load" /\ main' = "create") =>
          \A a \in Addrs : written[a] # <<>> =>
              /\ Cardinality({k \in 1..Len(mailData') : mailData'[k].address = a}) = 1
              /\ \A k \in 1..Len(mailData') : mailData'[k].address = a =>
                    /\ Fields(mailData'[k]) = written[a][1]
                    /\ ticks'[k] = <<NewTick>>
                    /\ timers'[k] = 0]_vars

\* after a restart a record with two seen ids has been reloaded as it was
\* written, and its first tick awaits the listing
C12_Witness ==
    /\ restarts = 1
    /\ main = "create"
    /\ \E k \in Recs :
          /\ written[AddrOf(k)] = <<Fields(mailData[k])>>
          /\ Len(mailData[k].seen) = 2
          /\ ticks[k] = <<NewTick>>

\* C13: when the fetch of a listed message is rejected, the ids listed before
\* it are in the seen-set after the tick, the id whose fetch failed and the
\* unseen ids listed after it are still unseen, and the next tick is
\* scheduled; the id whose fetch failed is unseen while that tick is waited
\* for; and a tick fetches or forwards only an id that is unseen, and never
\* goes past a listed id that is unseen (so the next tick that lists the
\* failed id fetches it, and none fetches the ids marked before).
C13_PartialProgress ==
    /\ [][\A k \in Recs :
             (/\ restarts' = restarts
              /\ Len(ticks[k]) = 1
              /\ ticks[k][1].pc = "fetch"
              /\ ticks'[k] = <<>>) =>
                 LET t == ticks[k][1]
                 IN  /\ \A j \in 1..Len(t.msgs) :
                           /\ j < t.i => Includes(mailData'[k].seen, t.msgs[j])
                           /\ (j >= t.i /\ ~Includes(mailData[k].seen, t.msgs[j]))
                                 => ~Includes(mailData'[k].seen, t.msgs[j])
                     /\ timers'[k] = timers[k] + 1]_vars
    /\ [](\A k \in Recs :
            /\ pollErr[AddrOf(k)].err = "fetch" =>
                  ~Includes(mailData[k].seen, pollErr[AddrOf(k)].id)
            /\ \A n \in 1..Len(ticks[k]) :
                  /\ Handling(k, n) =>
                        ~Includes(mailData[k].seen,
                                  CurMsg(ticks[k][n].msgs, ticks[k][n].i))
                  /\ \A j \in 1..Len(ticks[k][n].msgs) :
                        j < ticks[k][n].i =>
                            Includes(mailData[k].seen, ticks[k][n].msgs[j]))

\* a tick has forwarded and persisted one id and ended on the rejected
\* fetch of the next listed id; the next tick is pending
C13_Witness ==
    \E k \in Recs :
        /\ pollErr[AddrOf(k)].err = "fetch"
        /\ pollErr[AddrOf(k)].done = 1
        /\ \E m \in MsgIds :
              /\ mailData[k].seen = <<m>>
              /\ att[AddrOf(k)][m] = [fwd |-> "ok", wr |-> "ok"]
              /\ m \in StoreSeen(AddrOf(k))
        /\ ticks[k] = <<>>
        /\ timers[k] = 1

\* C14: a tick whose listing request is rejected changes nothing but its own
\* schedule: the registry (every record's seen list), the store, the relay
\* and write history, the provisioning attempts and the other pollers are as
\* before, no fetch or forward follows, and the next tick is pending.
C14_ListFailureNoOp ==
    [][\A k \in Recs :
          (/\ restarts' = restarts
           /\ faults' # faults
           /\ Len(ticks[k]) = 1
           /\ ticks[k][1].pc = "list"
           /\ ticks'[k] = <<>>) =>
              /\ mailData' = mailData
              /\ store' = store
              /\ att' = att
              /\ delivered' = delivered
              /\ creates' = creates
              /\ timers'[k] = timers[k] + 1
              /\ \A j \in Recs \ {k} : ticks'[j] = ticks[j] /\ timers'[j] = timers[j]]_vars

\* the listing request of an account with a seen id has failed, next to a
\* second account; the next tick is pending
C14_Witness ==
    /\ Len(mailData) = 2
    /\ \E k \in Recs :
          /\ pollErr[AddrOf(k)].err = "list"
          /\ mailData[k].seen # <<>>
          /\ ticks[k] = <<>>
          /\ timers[k] = 1

\* C15: the progress of a poller needs only its own calls to settle, and the
\* progress of the provisioner only its own: with the timer and the calls of
\* record k treated fairly (and nothing assumed of any other call) the ticks
\* of record k go on for ever, and with the interval timer and the calls of
\* the provisioning attempts treated fairly the awaited first attempt ends
\* and the interval goes on starting attempts for ever.
C15_HungCallStallsOnlyItsPoller ==
    /\ \A k \in 1..Len(AddrSeq) :
          WF_vars(PollerStep(k)) =>
              /\ (k \in Recs /\ timers[k] > 0) ~> (k \in Recs /\ ticks[k] # <<>>)
              /\ (k \in Recs /\ ticks[k] # <<>>) ~> (k \in Recs /\ timers[k] > 0)
    /\ (WF_vars(IntervalFire) /\ WF_vars(CreateStep)) =>
          /\ (main = "create") ~> (main = "running")
          /\ (main = "running" /\ creates = <<>>) ~> (creates # <<>>)
          /\ <>[](main = "running") => []<><<IntervalFire>>_vars

\* the first record's tick is still awaiting its call while the second
\* record, provisioned later, has relayed and persisted two messages and a
\* further provisioning attempt is in flight
C15_Witness ==
    /\ Len(mailData) = 2
    /\ Len(ticks[1]) = 1
    /\ mailData[1].seen = <<>>
    /\ \A m \in MsgIds : att[AddrOf(2)][m] = [fwd |-> "ok", wr |-> "ok"]
    /\ timers[2] = 1
    /\ creates # <<>>

\* no element of the list occurs twice
NoRepeat(seen) ==
    \A i \in 1..Len(seen) : \A j \in 1..Len(seen) : seen[i] = seen[j] => i = j

\* C16: no seen list, in memory or in the store, holds an id twice.
C16_SeenAddedOnce ==
    /\ \A k \in Recs : NoRepeat(mailData[k].seen)
    /\ \A j \in 1..Len(store) : NoRepeat(store[j].seen)

\* a tick whose listing repeats an id has pushed it once and awaits the
\* seen-write, the repeated entry being next in the loop
C16_Witness ==
    \E k \in Recs : \E n \in 1..Len(ticks[k]) :
        /\ ticks[k][n].pc = "persist"
        /\ ticks[k][n].i = 1
        /\ Len(ticks[k][n].msgs) = 2
        /\ ticks[k][n].msgs[1] = ticks[k][n].msgs[2]
        /\ mailData[k].seen = <<ticks[k][n].msgs[1]>>

\* C17: in one process an id handed to the relay once is never fetched or
\* handed to the relay again by a tick of the account, whatever the send and
\* the seen-write came to: the recorded relay outcome of an id changes only
\* from "not attempted".
C17_RelayAtMostOnce ==
    /\ [](\A k \in Recs : \A n \in 1..Len(ticks[k]) :
            Handling(k, n) =>
                att[AddrOf(k)][CurMsg(ticks[k][n].msgs, ticks[k][n].i)].fwd = "none")
    /\ [][restarts' = restarts =>
             \A a \in Addrs : \A m \in MsgIds :
                 att[a][m].fwd # "none" => att'[a][m].fwd = att[a][m].fwd]_vars

\* a later tick lists an id whose send failed, has passed over it and is
\* fetching the next listed id
C17_Witness ==
    \E k \in Recs : \E n \in 1..Len(ticks[k]) :
        /\ ticks[k][n].pc = "fetch"
        /\ ticks[k][n].i = 2
        /\ ticks[k][n].n0 = 1
        /\ att[AddrOf(k)][ticks[k][n].msgs[1]].fwd = "fail"

\* C18: the stored seen list of a record of the registry holds only ids of
\* its in-memory seen list, and a step in which a seen-write succeeds leaves
\* the stored list equal to the in-memory list.
C18_StoreFollowsMemory ==
    /\ [](\A k \in Recs : \A j \in StoreDocs(AddrOf(k)) :
            Range(store[j].seen) \subseteq Range(mailData[k].seen))
    /\ [][\A k \in Recs : \A m \in MsgIds :
             (/\ restarts' = restarts
              /\ att[AddrOf(k)][m].wr # "ok"
              /\ att'[AddrOf(k)][m].wr = "ok") =>
                 /\ StoreDocs(AddrOf(k))' # {}
                 /\ \A j \in 1..Len(store') :
                       store'[j].address = AddrOf(k) => store'[j].seen = mailData'[k].seen]_vars

\* the seen-write of one id failed, the write of the next id succeeded, and
\* the store holds both ids
C18_Witness ==
    \E k \in Recs : \E j \in StoreDocs(AddrOf(k)) :
        /\ Len(store[j].seen) = 2
        /\ store[j].seen = mailData[k].seen
        /\ att[AddrOf(k)][store[j].seen[1]].wr = "fail"
        /\ att[AddrOf(k)][store[j].seen[2]].wr = "ok"

\* C19: no step takes a document out of the store, changes its address,
\* password or token, or takes an id out of its seen list, whichever
\* provisioning attempts and ticks are in flight.
C19_WritesKeepOtherAccounts ==
    [][\A j \in 1..Len(store) :
          \E j2 \in 1..Len(store') :
              /\ store'[j2].address = store[j].address
              /\ store'[j2].password = store[j].password
              /\ store'[j2].token = store[j].token
              /\ Range(store[j].seen) \subseteq Range(store'[j2].seen)]_vars

\* two provisioning attempts overlap, one of them awaiting its save, while
\* the poller of a stored account with a seen id awaits a seen-write
C19_Witness ==
    /\ Len(creates) = 2
    /\ \E c \in 1..Len(creates) : creates[c].pc = "save"
    /\ \E k \in Recs :
          /\ Len(ticks[k]) = 1
          /\ ticks[k][1].pc = "persist"
          /\ StoreSeen(AddrOf(k)) # {}

====
